---- MODULE Spec2Model ----
(***************************************************************************)
(* A model of pyodbc_setup.py: the version resolution of get_version()     *)
(* (PKG-INFO manifest, then `git describe --tag`, then the fixed default), *)
(* the flag consumption of get_compiler_settings() and the directory walk  *)
(* of add_to_path().                                                       *)
(*                                                                         *)
(* Text is a sequence of one-character strings, so that parsing and        *)
(* formatting are computed character by character as the code does.        *)
(* Python's None is the empty tuple and a present value v is <<v>>.        *)
(***************************************************************************)
EXTENDS Integers, Sequences, FiniteSets, TLC

VARIABLES
    pc,             \* position in get_version()
    pkg_info,       \* the PKG-INFO file: None, or Some(sequence of lines)
    git_describe,   \* what `git describe --tag` does: [close, out]
    git_branch,     \* what `git symbolic-ref --short HEAD` does: [close, out]
    name,           \* get_version's local `name`
    numbers,        \* get_version's local `numbers`
    n,              \* _get_version_git's local `n` (a command's status)
    result,         \* _get_version_git's local `result` (describe's text)
    popen_calls,    \* the commands handed to os.popen so far
    ret,            \* what get_version() returned: None, or Some(<<name, numbers>>)
    argv,           \* sys.argv
    argv0,          \* sys.argv as the process started with it
    platform,       \* [os_name, sys_platform, environ] of the host
    calls,          \* the settings each call of get_compiler_settings() returned
    build,          \* the build directory tree: None, or Some(directory)
    todo,           \* the directories os.walk has still to yield, next first
    sys_path,       \* sys.path
    walk_pc         \* position in add_to_path()

version_vars == <<pc, pkg_info, git_describe, git_branch, name, numbers, n, result,
                  popen_calls, ret>>

settings_vars == <<argv, argv0, platform, calls>>

path_vars == <<build, todo, sys_path, walk_pc>>

vars == <<version_vars, settings_vars, path_vars>>

-----------------------------------------------------------------------------
(* Python values *)

None == <<>>

Some(v) == <<v>>

Val(o) == o[1]

\* `not x` for x that is None or a list
Falsy(o) == o = None \/ Val(o) = <<>>

OFFICIAL_BUILD == 9999

RECURSIVE SeqsUpTo(_, _)
\* the sequences over S of length at most k
SeqsUpTo(S, k) ==
    IF k = 0 THEN {<<>>}
    ELSE SeqsUpTo(S, k - 1) \cup {Append(q, e) : q \in SeqsUpTo(S, k - 1), e \in S}

-----------------------------------------------------------------------------
(* Text *)

Digits == {"0", "1", "2", "3", "4", "5", "6", "7", "8", "9"}

LowerLetters == {"a", "b", "c", "d", "e", "f", "g", "h", "i", "j", "k", "l", "m",
                 "n", "o", "p", "q", "r", "s", "t", "u", "v", "w", "x", "y", "z"}

Whitespace == {" ", "\t", "\n", "\r", "\f"}

\* the character at position i, or the empty text past the end
At(s, i) == IF i \in 1..Len(s) THEN s[i] ELSE ""

Sub(s, i, len) == SubSeq(s, i, i + len - 1)

StartsAt(s, i, t) == i + Len(t) - 1 <= Len(s) /\ Sub(s, i, Len(t)) = t

RECURSIVE Run(_, _, _)
\* the length of the longest run of characters of `class` that starts at i
Run(s, i, class) == IF At(s, i) \in class THEN 1 + Run(s, i + 1, class) ELSE 0

RECURSIVE IndexOf(_, _, _)
\* the first position >= i of character c in s, 0 when there is none
IndexOf(s, c, i) ==
    IF i > Len(s) THEN 0
    ELSE IF s[i] = c THEN i
    ELSE IndexOf(s, c, i + 1)

RECURSIVE LStrip(_)
LStrip(s) == IF s # <<>> /\ Head(s) \in Whitespace THEN LStrip(Tail(s)) ELSE s

RECURSIVE RStrip(_, _)
RStrip(s, class) ==
    IF s # <<>> /\ s[Len(s)] \in class THEN RStrip(SubSeq(s, 1, Len(s) - 1), class) ELSE s

\* str.strip()
Strip(s) == RStrip(LStrip(s), Whitespace)

DigitValue(c) ==
    CASE c = "0" -> 0 [] c = "1" -> 1 [] c = "2" -> 2 [] c = "3" -> 3 [] c = "4" -> 4
      [] c = "5" -> 5 [] c = "6" -> 6 [] c = "7" -> 7 [] c = "8" -> 8 [] c = "9" -> 9

DigitChar(d) ==
    CASE d = 0 -> "0" [] d = 1 -> "1" [] d = 2 -> "2" [] d = 3 -> "3" [] d = 4 -> "4"
      [] d = 5 -> "5" [] d = 6 -> "6" [] d = 7 -> "7" [] d = 8 -> "8" [] d = 9 -> "9"

RECURSIVE PyInt(_)
\* int(text) of a run of decimal digits
PyInt(s) ==
    IF Len(s) = 1 THEN DigitValue(s[1])
    ELSE 10 * PyInt(SubSeq(s, 1, Len(s) - 1)) + DigitValue(s[Len(s)])

RECURSIVE PyStr(_)
\* '%s' % k of a non-negative integer
PyStr(k) == IF k < 10 THEN <<DigitChar(k)>> ELSE PyStr(k \div 10) \o <<DigitChar(k % 10)>>

\* '%02d' % k of a non-negative integer
Pad02d(k) == IF k < 10 THEN <<"0">> \o PyStr(k) ELSE PyStr(k)

-----------------------------------------------------------------------------
(* _get_version_pkginfo *)

VersionColon == <<"V", "e", "r", "s", "i", "o", "n", ":">>

BetaMark == <<"-", "b", "e", "t", "a">>

\* re_ver.search(line) for r'^Version: \s+ (\d+)\.(\d+)\.(\d+) (?: -beta(\d+))?' under
\* re.VERBOSE (the blanks of the pattern are not part of it): None, or Some(groups),
\* each group None or Some(text)
re_ver_search(line) ==
    LET p1 == Len(VersionColon) + 1
        ws == Run(line, p1, Whitespace)
        p2 == p1 + ws
        a  == Run(line, p2, Digits)
        p3 == p2 + a + 1
        b  == Run(line, p3, Digits)
        p4 == p3 + b + 1
        c  == Run(line, p4, Digits)
        p5 == p4 + c
        d  == IF StartsAt(line, p5, BetaMark) THEN Run(line, p5 + Len(BetaMark), Digits) ELSE 0
    IN  IF /\ StartsAt(line, 1, VersionColon)
           /\ ws > 0
           /\ a > 0 /\ At(line, p2 + a) = "."
           /\ b > 0 /\ At(line, p3 + b) = "."
           /\ c > 0
        THEN Some(<<Some(Sub(line, p2, a)), Some(Sub(line, p3, b)), Some(Sub(line, p4, c)),
                    IF d > 0 THEN Some(Sub(line, p5 + Len(BetaMark), d)) ELSE None>>)
        ELSE None

\* AfterColon without its strip()
AfterColon_unstripped(line) == SubSeq(line, IndexOf(line, ":", 1) + 1, Len(line))

\* line.split(':', 1)[1].strip() of a line that holds a colon
AfterColon(line) == Strip(SubSeq(line, IndexOf(line, ":", 1) + 1, Len(line)))

\* int(g or default) of a group
IntOr(g, default) == IF g = None THEN default ELSE PyInt(Val(g))

RECURSIVE ScanLines(_)
\* the loop over the lines of PKG-INFO: the first matching line decides
ScanLines(lines) ==
    IF lines = <<>> THEN <<None, None>>
    ELSE LET line  == Head(lines)
             match == re_ver_search(line)
         IN  IF match # None
             THEN <<Some(AfterColon(line)),
                    Some(<<IntOr(Val(match)[1], 0), IntOr(Val(match)[2], 0),
                           IntOr(Val(match)[3], 0), IntOr(Val(match)[4], OFFICIAL_BUILD)>>)>>
             ELSE ScanLines(Tail(lines))

\* <<name, numbers>>
_get_version_pkginfo(info) == IF info # None THEN ScanLines(Val(info)) ELSE <<None, None>>

-----------------------------------------------------------------------------
(* getoutput and _get_version_git *)

\* <<status, text>> of a command: status = pipe.close() or 0, text without its
\* trailing newlines
getoutput(cmd) ==
    <<IF cmd.close = None THEN 0 ELSE Val(cmd.close), RStrip(cmd.out, {"\n"})>>

\* what '.' of a pattern matches: any character but a newline
Dot(c) == c # "" /\ c # "\n"

HashChars == Digits \cup LowerLetters

\* the lengths <<a, b>> the first two (\d+) of the tag pattern can take in s so
\* that (\d+).(\d+).(\d+) matches at the start of s
TagSplits(s) ==
    {ab \in (1..Run(s, 1, Digits)) \X (1..Len(s)) :
        /\ Dot(At(s, ab[1] + 1))
        /\ ab[2] <= Run(s, ab[1] + 2, Digits)
        /\ Dot(At(s, ab[1] + ab[2] + 2))
        /\ Run(s, ab[1] + ab[2] + 3, Digits) > 0}

\* the split a backtracking matcher finds first: each (\d+) is greedy, the
\* earlier one first
GreedySplit(s) ==
    CHOOSE ab \in TagSplits(s) :
        \A cd \in TagSplits(s) : cd[1] < ab[1] \/ (cd[1] = ab[1] /\ cd[2] <= ab[2])

\* re.match(r'(\d+).(\d+).(\d+) (?: -(\d+)-g([0-9a-z]+))?', s, re.VERBOSE): None, or
\* Some(groups), each group None or Some(text)
re_tag_match(s) ==
    IF TagSplits(s) = {} THEN None
    ELSE LET ab == GreedySplit(s)
             p2 == ab[1] + 2
             p3 == ab[1] + ab[2] + 3
             c  == Run(s, p3, Digits)
             p4 == p3 + c
             d  == IF At(s, p4) = "-" THEN Run(s, p4 + 1, Digits) ELSE 0
             p5 == p4 + 1 + d
             h  == IF d > 0 /\ StartsAt(s, p5, <<"-", "g">>) THEN Run(s, p5 + 2, HashChars) ELSE 0
         IN  Some(<<Some(Sub(s, 1, ab[1])), Some(Sub(s, p2, ab[2])), Some(Sub(s, p3, c)),
                    IF h > 0 THEN Some(Sub(s, p4 + 1, d)) ELSE None,
                    IF h > 0 THEN Some(Sub(s, p5 + 2, h)) ELSE None>>)

IOProTag == <<"-", "[", "I", "O", "P", "r", "o", "]">>

IOPROTag == <<"-", "[", "I", "O", "P", "R", "O", "]">>

\* '%s.%s.%s-[IOPro]' % tuple(groups[:3])
OfficialName(groups) ==
    Val(groups[1]) \o <<".">> \o Val(groups[2]) \o <<".">> \o Val(groups[3]) \o IOProTag

\* '%s.%s.%s-beta%02d-[IOPRO]' % tuple(nums), then '-[%s]' % groups[-1]
BetaName(nums, groups) ==
    PyStr(nums[1]) \o <<".">> \o PyStr(nums[2]) \o <<".">> \o PyStr(nums[3])
        \o BetaMark \o Pad02d(nums[4]) \o IOPROTag
        \o <<"-", "[">> \o Val(groups[5]) \o <<"]">>

\* numbers = [int(x or OFFICIAL_BUILD) for x in groups[:4]]
GroupNumbers(groups) == [i \in 1..4 |-> IntOr(groups[i], OFFICIAL_BUILD)]

\* NextMicro without its increment
NextMicro_unchanged(nums) == nums

\* numbers[-2] += 1
NextMicro(nums) == [nums EXCEPT ![3] = nums[3] + 1]

\* _get_version_git from the status and text of `git describe --tag` up to the
\* branch query: <<name, numbers>>
ParseDescribe(status, text) ==
    IF status # 0 THEN <<None, None>>
    ELSE LET match == re_tag_match(text)
         IN  IF match = None THEN <<None, None>>
             ELSE LET groups == Val(match)
                      nums   == GroupNumbers(groups)
                  IN  IF nums[4] = OFFICIAL_BUILD
                      THEN <<Some(OfficialName(groups)), Some(nums)>>
                      ELSE <<Some(BetaName(NextMicro(nums), groups)), Some(NextMicro(nums))>>

Master == <<"m", "a", "s", "t", "e", "r">>

\* if n and branch_name != 'master': name = branch_name + '-' + name
BranchPrefixed(status, branch_name, nm) ==
    IF status # 0 /\ branch_name # Master THEN branch_name \o <<"-">> \o nm ELSE nm

Unsupported ==
    <<"3", ".", "0", ".", "0", "-", "u", "n", "s", "u", "p", "p", "o", "r", "t", "e", "d">>

-----------------------------------------------------------------------------
(* get_compiler_settings *)

NPVERSION_STR == <<"1", ".", "2", "-", "d", "e", "v">>

\* the version_str get_module_extension hands over
VersionStr == <<"2", ".", "1", ".", "4">>

\* numpy.get_include()
NumpyInclude == <<"/", "n", "p", "/", "i", "n", "c", "l", "u", "d", "e">>

\* sys.prefix
SysPrefix == <<"/", "u", "s", "r">>

BuildOptions == << <<"a", "s", "s", "e", "r", "t">>, <<"t", "r", "a", "c", "e">>, <<"l", "e", "a", "k", "-", "c", "h", "e", "c", "k">> >>

DebugFlag == <<"-", "-", "d", "e", "b", "u", "g">>

UpperOf ==
    [c \in LowerLetters |->
        CASE c = "a" -> "A" [] c = "b" -> "B" [] c = "c" -> "C" [] c = "d" -> "D"
          [] c = "e" -> "E" [] c = "f" -> "F" [] c = "g" -> "G" [] c = "h" -> "H"
          [] c = "i" -> "I" [] c = "j" -> "J" [] c = "k" -> "K" [] c = "l" -> "L"
          [] c = "m" -> "M" [] c = "n" -> "N" [] c = "o" -> "O" [] c = "p" -> "P"
          [] c = "q" -> "Q" [] c = "r" -> "R" [] c = "s" -> "S" [] c = "t" -> "T"
          [] c = "u" -> "U" [] c = "v" -> "V" [] c = "w" -> "W" [] c = "x" -> "X"
          [] c = "y" -> "Y" [] c = "z" -> "Z"]

UpperLetters == {UpperOf[c] : c \in LowerLetters}

\* str.upper()
Upper(t) == [i \in 1..Len(t) |-> IF t[i] \in LowerLetters THEN UpperOf[t[i]] ELSE t[i]]

\* str.lower()
Lower(t) ==
    [i \in 1..Len(t) |->
        IF t[i] \in UpperLetters THEN CHOOSE c \in LowerLetters : UpperOf[c] = t[i] ELSE t[i]]

\* str.replace(a, b) for single characters
Replace(t, a, b) == [i \in 1..Len(t) |-> IF t[i] = a THEN b ELSE t[i]]

\* '--%s' % option
SwitchOf(option) == <<"-", "-">> \o option

\* 'PYODBC_%s' % option.replace('-', '_').upper()
MacroOf(option) == <<"P", "Y", "O", "D", "B", "C", "_">> \o Upper(Replace(option, "-", "_"))

RECURSIVE ListIndex(_, _, _)
\* the first position >= i of x in list q, 0 when there is none
ListIndex(q, x, i) ==
    IF i > Len(q) THEN 0
    ELSE IF q[i] = x THEN i
    ELSE ListIndex(q, x, i + 1)

\* list.remove(x) where x is in the list: the first occurrence goes
ListRemove(q, x) ==
    LET i == ListIndex(q, x, 1) IN SubSeq(q, 1, i - 1) \o SubSeq(q, i + 1, Len(q))

RECURSIVE Split(_, _)
\* str.split(sep) for a single character
Split(t, sep) ==
    LET i == IndexOf(t, sep, 1)
    IN  IF i = 0 THEN <<t>>
        ELSE <<SubSeq(t, 1, i - 1)>> \o Split(SubSeq(t, i + 1, Len(t)), sep)

\* os.pathsep
PathSep(os_name) == IF os_name = "nt" THEN ";" ELSE ":"

RECURSIVE ConsumeOptions(_, _, _)
\* for option in ['assert', 'trace', 'leak-check'], from the k-th on: the switch is
\* removed from the arguments and its macro appended, or ValueError is passed over.
\* <<arguments, macros>>
ConsumeOptions(args, macros, k) ==
    IF k > Len(BuildOptions) THEN <<args, macros>>
    ELSE IF ListIndex(args, SwitchOf(BuildOptions[k]), 1) # 0
         THEN ConsumeOptions(ListRemove(args, SwitchOf(BuildOptions[k])),
                             Append(macros, [name |-> MacroOf(BuildOptions[k]), int |-> 1]),
                             k + 1)
         ELSE ConsumeOptions(args, macros, k + 1)

MsvcWarnings ==
    << <<"/", "W", "a", "l", "l">>, <<"/", "w", "d", "4", "6", "6", "8">>, <<"/", "w", "d", "4", "8", "2", "0">>,
       <<"/", "w", "d", "4", "7", "1", "1">>, <<"/", "w", "d", "4", "1", "0", "0">>, <<"/", "w", "d", "4", "1", "2", "7">>,
       <<"/", "w", "d", "4", "1", "9", "1">> >>

MsvcDebug ==
    << <<"/", "O", "d">>, <<"/", "G", "e">>, <<"/", "G", "S">>, <<"/", "G", "Z">>,
       <<"/", "R", "T", "C", "1">>, <<"/", "W", "p", "6", "4">>, <<"/", "Y", "d">> >>

GccArgs == << <<"-", "W", "n", "o", "-", "w", "r", "i", "t", "e", "-", "s", "t", "r", "i", "n", "g", "s">>, <<"-", "I">> \o SysPrefix \o <<"/", "i", "n", "c", "l", "u", "d", "e">> >>

Odbc32 == <<"o", "d", "b", "c", "3", "2">>

Advapi32 == <<"a", "d", "v", "a", "p", "i", "3", "2">>

Odbc == <<"o", "d", "b", "c">>

WindowsPrefix == <<"w", "i", "n", "d", "o", "w", "s">>

\* os.environ.get("OS", '').lower().startswith('windows')
OnWindowsPosix(environ) ==
    environ.OS # None /\ StartsAt(Lower(Val(environ.OS)), 1, WindowsPrefix)

\* get_compiler_settings(version_str) run on arguments args of host host:
\* <<the arguments it leaves, the settings it returns>>
get_compiler_settings(args, host) ==
    LET include_dirs ==
            <<NumpyInclude>> \o
                (IF host.environ.C_INCLUDE_PATH # None
                 THEN Split(Val(host.environ.C_INCLUDE_PATH), PathSep(host.os_name))
                 ELSE <<>>)
        macros0  == << [name |-> <<"P", "Y", "O", "D", "B", "C", "_", "V", "E", "R", "S", "I", "O", "N">>, str |-> VersionStr],
                       [name |-> <<"N", "P", "O", "D", "B", "C", "_", "V", "E", "R", "S", "I", "O", "N">>, str |-> NPVERSION_STR] >>
        consumed == ConsumeOptions(args, macros0, 1)
        args1    == consumed[1]
        debug    == host.os_name = "nt" /\ ListIndex(args1, DebugFlag, 1) # 0
    IN  << IF debug THEN ListRemove(args1, DebugFlag) ELSE args1,
           [ libraries |->
                 IF host.os_name = "nt" THEN <<Odbc32, Advapi32>>
                 ELSE IF OnWindowsPosix(host.environ) THEN <<Odbc32>>
                 ELSE IF host.sys_platform = "darwin" THEN <<Odbc>>
                 ELSE <<Odbc>>,
             include_dirs |-> include_dirs,
             define_macros |-> consumed[2],
             extra_compile_args |->
                 IF host.os_name = "nt"
                 THEN Some(IF debug THEN MsvcWarnings \o MsvcDebug ELSE MsvcWarnings)
                 ELSE IF OnWindowsPosix(host.environ) THEN None
                 ELSE IF host.sys_platform = "darwin" THEN Some(GccArgs)
                 ELSE Some(GccArgs) ] >>

\* most arguments the process starts with
MaxArgs == 3

\* most calls of get_compiler_settings() in one process
MaxCalls == 2

Arguments == { <<"b", "u", "i", "l", "d">>, <<"-", "-", "d", "e", "b", "u", "g">>, SwitchOf(BuildOptions[1]), SwitchOf(BuildOptions[2]),
               SwitchOf(BuildOptions[3]) }

\* os.name is 'nt' on the hosts where sys.platform is 'win32', and only there
Hosts ==
  { h \in
    [ os_name : {"nt", "posix"},
      sys_platform : {"win32", "linux", "darwin", "cygwin"},
      environ : [ OS : {None, Some(<<"W", "i", "n", "d", "o", "w", "s", "_", "N", "T">>)},
                  C_INCLUDE_PATH : {None, Some(<<"/", "a", ":", "/", "b">>)} ] ]
    : (h.os_name = "nt") <=> (h.sys_platform = "win32") }

SettingsIdle ==
    /\ argv = <<>>
    /\ argv0 = <<>>
    /\ platform = [os_name |-> "posix", sys_platform |-> "linux",
                   environ |-> [OS |-> None, C_INCLUDE_PATH |-> None]]
    /\ calls = <<>>

CallGetCompilerSettings ==
    /\ Len(calls) < MaxCalls
    /\ argv' = get_compiler_settings(argv, platform)[1]
    /\ calls' = Append(calls, get_compiler_settings(argv, platform)[2])
    /\ UNCHANGED <<argv0, platform>>

-----------------------------------------------------------------------------
(* add_to_path *)

\* [ t[0] for t in imp.get_suffixes() if t[-1] == imp.C_EXTENSION ]
library_exts == << <<".", "s", "o">>, <<"m", "o", "d", "u", "l", "e", ".", "s", "o">> >>

\* [ 'pyodbcconf%s' % ext for ext in library_exts ]
library_names == [i \in 1..Len(library_exts) |-> <<"p", "y", "o", "d", "b", "c", "c", "o", "n", "f">> \o library_exts[i]]

\* sys.version_info[0] and [1] of the running interpreter
VersionInfo == <<3, 8>>

\* '-%s.%s' % (sys.version_info[0], sys.version_info[1])
dir_suffix == <<"-">> \o PyStr(VersionInfo[1]) \o <<".">> \o PyStr(VersionInfo[2])

\* str.endswith
EndsWith(t, suffix) ==
    Len(t) >= Len(suffix) /\ SubSeq(t, Len(t) - Len(suffix) + 1, Len(t)) = suffix

\* dirs = [ d for d in dirs if d.endswith(dir_suffix) ]: a new list bound to the
\* loop's name `dirs`
FilteredDirs(dirs) == SelectSeq(dirs, LAMBDA d : EndsWith(d.name, dir_suffix))

\* the sub-directories os.walk goes into after the loop body has run on a directory:
\* those of the list it yielded, which the body has not changed (it has bound the
\* name `dirs` to FilteredDirs, another list)
Descended(dirs) == dirs

\* some library name is among the files
HoldsLibrary(files) ==
    \E i \in 1..Len(library_names) : \E j \in 1..Len(files) : files[j] = library_names[i]

\* most sub-directories of the build directory
MaxDirs == 2

DirNames == { <<"l", "i", "b", "-", "3", ".", "8">>, <<"l", "i", "b", "-", "2", ".", "7">>, <<"t", "e", "m", "p", "-", "3", ".", "8">> }

\* the entries of one directory have different names
DistinctNames(dirs) ==
    \A i, j \in 1..Len(dirs) : dirs[i].name = dirs[j].name => i = j

FileLists == { <<>>, << <<"p", "y", "o", "d", "b", "c", "c", "o", "n", "f", ".", "s", "o">> >>, << <<"p", "y", "o", "d", "b", "c", ".", "s", "o">>, <<"p", "y", "o", "d", "b", "c", "c", "o", "n", "f", "m", "o", "d", "u", "l", "e", ".", "s", "o">> >> }

\* directories with no sub-directory
Leaves == [name : DirNames, files : FileLists, dirs : {<<>>}]

\* directories with at most one sub-directory
Branches == [name : DirNames, files : FileLists, dirs : SeqsUpTo(Leaves, 1)]

\* the build directory, when there is one, with at most `most` sub-directories
BuildTrees(most) ==
    [name : { <<"b", "u", "i", "l", "d">> }, files : FileLists,
     dirs : {dirs \in SeqsUpTo(Branches, most) : DistinctNames(dirs)}]

\* sys.path before add_to_path()
SysPath0 == << << <<"s", "i", "t", "e", "-", "p", "a", "c", "k", "a", "g", "e", "s">> >> >>

PathIdle ==
    /\ build = None
    /\ todo = <<>>
    /\ sys_path = SysPath0
    /\ walk_pc = "idle"

\* the directories under a path, as os.walk is to visit them: [path, dir]
Under(path, dirs) ==
    [i \in 1..Len(dirs) |-> [path |-> Append(path, dirs[i].name), dir |-> dirs[i]]]

\* one round of `for top, dirs, files in os.walk(build)`: the next directory is
\* yielded; with a library among its files it goes to the front of sys.path and
\* add_to_path returns, else the walk goes on below it
WalkStep ==
    /\ walk_pc = "walk"
    /\ todo # <<>>
    /\ LET top == Head(todo)
       IN  IF HoldsLibrary(top.dir.files)
           THEN /\ sys_path' = <<top.path>> \o sys_path
                /\ walk_pc' = "returned"
                /\ todo' = <<>>
           ELSE /\ todo' = Under(top.path, Descended(top.dir.dirs)) \o Tail(todo)
                /\ UNCHANGED <<sys_path, walk_pc>>
    /\ UNCHANGED build

\* the walk is over: raise SystemExit('Did not find pyodbcconf')
RaiseSystemExit ==
    /\ walk_pc = "walk"
    /\ todo = <<>>
    /\ walk_pc' = "exit"
    /\ UNCHANGED <<build, todo, sys_path>>

-----------------------------------------------------------------------------
(* The inputs of get_version(): the file system and the two commands *)

\* most lines a PKG-INFO file of the model holds
MaxLines == 2

ManifestLines ==
    { <<"V", "e", "r", "s", "i", "o", "n", ":", " ", "2", ".", "1", ".", "4", "\n">>,
      <<"V", "e", "r", "s", "i", "o", "n", ":", " ", "2", ".", "1", ".", "4", "-", "b", "e", "t", "a", "3", "\n">>,
      <<"V", "e", "r", "s", "i", "o", "n", ":", " ", "a", "b", "c", "\n">>,
      <<"V", "e", "r", "s", "i", "o", "n", ":", " ", " ", "1", "0", ".", "0", ".", "9", "-", "b", "e", "t", "a", "9", "9", "9", "9", " ", "\n">>,
      <<"V", "e", "r", "s", "i", "o", "n", ":", "2", ".", "1", ".", "4", "\n">> }

\* PKG-INFO is absent, or holds some lines
Manifests == {None} \cup {Some(lines) : lines \in SeqsUpTo(ManifestLines, MaxLines)}

TagTexts ==
    { <<"2", ".", "1", ".", "4">>,
      <<"1", ".", "0", ".", "9">>,
      <<"2", "x", "1", "x", "4">> }

TagSuffixes ==
    { <<>>,
      <<"-", "7", "-", "g", "a", "b", "1", "f">>,
      <<"-", "0", "-", "g", "a", "b", "1", "f">>,
      <<"-", "1", "2", "-", "g", "a", "b", "1", "f">>,
      <<"-", "9", "9", "9", "9", "-", "g", "a", "b", "1", "f">>,
      <<"-", "7", "-", "g", "x", "y", "z">> }

\* what `git describe --tag` may print
DescribeTexts ==
    {t \o x \o <<"\n">> : t \in TagTexts, x \in TagSuffixes}
        \cup { <<>>, <<"1", "2", "3", "4", "5", "\n">>, <<"v", "2", ".", "1", ".", "4", "\n">> }

\* pipe.close(): None for exit status 0, else the wait status (exit 128)
CloseValues == {None, Some(32768)}

DescribeOutcomes == [close : CloseValues, out : DescribeTexts]

BranchTexts == { <<>>, <<"m", "a", "s", "t", "e", "r", "\n">>, <<"f", "e", "a", "t", "u", "r", "e", "-", "x", "\n">> }

BranchOutcomes == [close : CloseValues, out : BranchTexts]

CmdDescribe == "git describe --tag"

CmdBranch == "git symbolic-ref --short HEAD"

-----------------------------------------------------------------------------
(* get_version *)

VersionInit ==
    /\ pc = "pkginfo"
    /\ pkg_info \in Manifests
    /\ git_describe \in DescribeOutcomes
    /\ git_branch \in BranchOutcomes
    /\ name = None
    /\ numbers = None
    /\ n = 0
    /\ result = <<>>
    /\ popen_calls = <<>>
    /\ ret = None

\* name, numbers = _get_version_pkginfo(); if not numbers: ...
ReadPkgInfo ==
    /\ pc = "pkginfo"
    /\ name' = _get_version_pkginfo(pkg_info)[1]
    /\ numbers' = _get_version_pkginfo(pkg_info)[2]
    /\ pc' = IF Falsy(numbers') THEN "describe" ELSE "default"
    /\ UNCHANGED <<pkg_info, git_describe, git_branch, n, result, popen_calls, ret>>

\* n, result = getoutput('git describe --tag')
GitDescribe ==
    /\ pc = "describe"
    /\ popen_calls' = Append(popen_calls, CmdDescribe)
    /\ n' = getoutput(git_describe)[1]
    /\ result' = getoutput(git_describe)[2]
    /\ pc' = "parse"
    /\ UNCHANGED <<pkg_info, git_describe, git_branch, name, numbers, ret>>

\* the status check, the match and the two names of _get_version_git
GitParse ==
    /\ pc = "parse"
    /\ name' = ParseDescribe(n, result)[1]
    /\ numbers' = ParseDescribe(n, result)[2]
    /\ pc' = IF numbers' = None THEN "default" ELSE "branch"
    /\ UNCHANGED <<pkg_info, git_describe, git_branch, n, result, popen_calls, ret>>

\* n, branch_name = getoutput('git symbolic-ref --short HEAD') and the prefix
GitBranch ==
    /\ pc = "branch"
    /\ popen_calls' = Append(popen_calls, CmdBranch)
    /\ n' = getoutput(git_branch)[1]
    /\ name' = Some(BranchPrefixed(n', getoutput(git_branch)[2], Val(name)))
    /\ pc' = "default"
    /\ UNCHANGED <<pkg_info, git_describe, git_branch, numbers, result, ret>>

\* OrDefault without its fallback
OrDefault_missing(nm, nums) == <<nm, nums>>

\* if not numbers: name, numbers = '3.0.0-unsupported', [3,0,0,0]
OrDefault(nm, nums) ==
    IF Falsy(nums) THEN <<Some(Unsupported), Some(<<3, 0, 0, 0>>)>> ELSE <<nm, nums>>

\* the last check of get_version and its return
DefaultAndReturn ==
    /\ pc = "default"
    /\ name' = OrDefault(name, numbers)[1]
    /\ numbers' = OrDefault(name, numbers)[2]
    /\ ret' = Some(<<name', numbers'>>)
    /\ pc' = "done"
    /\ UNCHANGED <<pkg_info, git_describe, git_branch, n, result, popen_calls>>

VersionIdle ==
    /\ pc = "idle"
    /\ pkg_info = None
    /\ git_describe = [close |-> None, out |-> <<>>]
    /\ git_branch = [close |-> None, out |-> <<>>]
    /\ name = None
    /\ numbers = None
    /\ n = 0
    /\ result = <<>>
    /\ popen_calls = <<>>
    /\ ret = None

\* get_version() is called
Init == VersionInit /\ SettingsIdle /\ PathIdle

Next ==
    \/ ReadPkgInfo /\ UNCHANGED <<settings_vars, path_vars>>
    \/ GitDescribe /\ UNCHANGED <<settings_vars, path_vars>>
    \/ GitParse /\ UNCHANGED <<settings_vars, path_vars>>
    \/ GitBranch /\ UNCHANGED <<settings_vars, path_vars>>
    \/ DefaultAndReturn /\ UNCHANGED <<settings_vars, path_vars>>

Spec == Init /\ [][Next]_vars

\* get_compiler_settings() is called, once or more, in a process started with some
\* arguments on some host
SettingsInit ==
    /\ VersionIdle
    /\ PathIdle
    /\ argv0 \in SeqsUpTo(Arguments, MaxArgs)
    /\ argv = argv0
    /\ platform \in Hosts
    /\ calls = <<>>

SettingsNext == CallGetCompilerSettings /\ UNCHANGED <<version_vars, path_vars>>

SettingsSpec == SettingsInit /\ [][SettingsNext]_vars

\* add_to_path() is called: os.walk(build) starts at the build directory, and yields
\* nothing when there is none
PathInit ==
    /\ VersionIdle
    /\ SettingsIdle
    /\ build \in {None} \cup {Some(d) : d \in BuildTrees(MaxDirs)}
    /\ todo = IF build = None THEN <<>> ELSE <<[path |-> <<Val(build).name>>, dir |-> Val(build)]>>
    /\ sys_path = SysPath0
    /\ walk_pc = "walk"

PathNext ==
    \/ WalkStep /\ UNCHANGED <<version_vars, settings_vars>>
    \/ RaiseSystemExit /\ UNCHANGED <<version_vars, settings_vars>>

PathSpec == PathInit /\ [][PathNext]_vars

-----------------------------------------------------------------------------
(* The forms the statements about get_version() speak of, written out from  *)
(* numbers: a manifest line `Version: M.m.u[-betaN]` and a describe output  *)
(* `M.m.u` or `M.m.u-N-gHASH`.                                               *)

ClaimVersions == {<<2, 1, 4>>, <<1, 0, 9>>, <<10, 0, 9>>}

ClaimBetas == {None, Some(3), Some(OFFICIAL_BUILD)}

ClaimBlanks == {<<" ">>, <<" ", " ">>}

ClaimCommits == {0, 7, 12, OFFICIAL_BUILD}

ClaimHashes == { <<"a", "b", "1", "f">> }

HexChars == Digits \cup {"a", "b", "c", "d", "e", "f"}

\* M.m.u
TagForm(v) == PyStr(v[1]) \o <<".">> \o PyStr(v[2]) \o <<".">> \o PyStr(v[3])

\* M.m.u-N-gHASH
BetaForm(v, k, h) == TagForm(v) \o <<"-">> \o PyStr(k) \o <<"-", "g">> \o h

\* the line starts `Version:`, blanks, M.m.u and, when beta is Some(N), -betaN, and
\* no digit and (when beta is None) no -betaN goes on from there
IsManifestForm(line, blanks, v, beta) ==
    LET head == VersionColon \o blanks \o TagForm(v)
        full == IF beta = None THEN head ELSE head \o BetaMark \o PyStr(Val(beta))
    IN  /\ StartsAt(line, 1, full)
        /\ At(line, Len(full) + 1) \notin Digits
        /\ beta = None =>
               ~(StartsAt(line, Len(full) + 1, BetaMark)
                    /\ At(line, Len(full) + Len(BetaMark) + 1) \in Digits)

IsVersionLine(line) ==
    \E blanks \in ClaimBlanks, v \in ClaimVersions, beta \in ClaimBetas :
        IsManifestForm(line, blanks, v, beta)

\* the position of the first line of the manifest of the form, 0 when there is none
FirstVersionLine ==
    IF pkg_info = None \/ \A i \in 1..Len(Val(pkg_info)) : ~IsVersionLine(Val(pkg_info)[i])
    THEN 0
    ELSE CHOOSE i \in 1..Len(Val(pkg_info)) :
             /\ IsVersionLine(Val(pkg_info)[i])
             /\ \A j \in 1..(i - 1) : ~IsVersionLine(Val(pkg_info)[j])

\* t is text with the white space at its two ends taken off
IsTrimOf(t, text) ==
    /\ t # <<>> /\ t[1] \notin Whitespace /\ t[Len(t)] \notin Whitespace
    /\ \E i \in 0..(Len(text) - Len(t)) :
           /\ Sub(text, i + 1, Len(t)) = t
           /\ \A j \in 1..Len(text) : (j <= i \/ j > i + Len(t)) => text[j] \in Whitespace

\* `git describe --tag` exits with status 0 and prints t
DescribePrints(t) == git_describe.close = None /\ git_describe.out = t \o <<"\n">>

\* the branch query exits with status 0
BranchQueryOk == git_branch.close = None

\* what the branch query prints, without the line end
BranchPrinted ==
    IF git_branch.out # <<>> /\ git_branch.out[Len(git_branch.out)] = "\n"
    THEN SubSeq(git_branch.out, 1, Len(git_branch.out) - 1)
    ELSE git_branch.out

Returned == pc = "done"

ReturnedName == Val(Val(ret)[1])

ReturnedNumbers == Val(Val(ret)[2])

\* name is expected, or expected behind a branch prefix `<branch>-`
IsNameUpToPrefix(nm, expected) ==
    \/ nm = expected
    \/ /\ Len(nm) > Len(expected)
       /\ SubSeq(nm, Len(nm) - Len(expected) + 1, Len(nm)) = expected
       /\ nm[Len(nm) - Len(expected)] = "-"

DefaultVersion == Some(<<Some(Unsupported), Some(<<3, 0, 0, 0>>)>>)

-----------------------------------------------------------------------------
(* C1 *)

-----------------------------------------------------------------------------
(* C2 *)

\* C2 as stated: with no manifest line of the form and `git describe --tag` exiting
\* with status 0, output M.m.u gives numbers [M, m, u, 9999] and output
\* M.m.u-N-gHASH gives numbers [M, m, u, N], the micro element being the tag's own.
NumbersKeepTagMicro ==
    (Returned /\ FirstVersionLine = 0) =>
        \A v \in ClaimVersions :
            /\ DescribePrints(TagForm(v)) =>
                   ReturnedNumbers = <<v[1], v[2], v[3], OFFICIAL_BUILD>>
            /\ \A k \in ClaimCommits, h \in ClaimHashes :
                   DescribePrints(BetaForm(v, k, h)) =>
                       ReturnedNumbers = <<v[1], v[2], v[3], k>>

\* C2 as amended: output M.m.u gives [M, m, u, 9999]; output M.m.u-N-gHASH gives
\* [M, m, u+1, N], the micro element incremented in the numbers as it is in the
\* name, but for N = 9999, which gives [M, m, u, 9999].
NumbersFromDescribe ==
    (Returned /\ FirstVersionLine = 0) =>
        \A v \in ClaimVersions :
            /\ DescribePrints(TagForm(v)) =>
                   ReturnedNumbers = <<v[1], v[2], v[3], OFFICIAL_BUILD>>
            /\ \A k \in ClaimCommits, h \in ClaimHashes :
                   DescribePrints(BetaForm(v, k, h)) =>
                       ReturnedNumbers =
                           IF k = OFFICIAL_BUILD
                           THEN <<v[1], v[2], v[3], OFFICIAL_BUILD>>
                           ELSE <<v[1], v[2], v[3] + 1, k>>

\* seven commits past tag 2.1.4, no manifest: the numbers are those of 2.1.5
NumbersFromDescribeWitness ==
    /\ Returned
    /\ pkg_info = None
    /\ DescribePrints(BetaForm(<<2, 1, 4>>, 7, <<"a", "b", "1", "f">>))
    /\ ReturnedNumbers = <<2, 1, 5, 7>>

-----------------------------------------------------------------------------
(* C3 *)

\* C3: with no manifest line of the form and `git describe --tag` exiting with status
\* 0, the name is, up to a branch prefix, M.m.u-[IOPro] for output M.m.u and
\* M.m.(u+1)-betaNN-[IOPRO]-[HASH] for output M.m.u-N-gHASH, NN being N padded with
\* zeros to two digits.
NameFromDescribe ==
    (Returned /\ FirstVersionLine = 0) =>
        \A v \in ClaimVersions :
            /\ DescribePrints(TagForm(v)) =>
                   IsNameUpToPrefix(ReturnedName, TagForm(v) \o IOProTag)
            /\ \A k \in ClaimCommits, h \in ClaimHashes :
                   DescribePrints(BetaForm(v, k, h)) =>
                       IsNameUpToPrefix(ReturnedName,
                           TagForm(<<v[1], v[2], v[3] + 1>>) \o BetaMark \o Pad02d(k)
                               \o IOPROTag \o <<"-", "[">> \o h \o <<"]">>)

-----------------------------------------------------------------------------
(* C4 *)

\* the name starts with the printed branch and a dash, a version following
HasBranchPrefix ==
    /\ StartsAt(ReturnedName, 1, BranchPrinted \o <<"-">>)
    /\ At(ReturnedName, Len(BranchPrinted) + 2) \in Digits

\* C4: after a successful parse of the describe output the returned name carries the
\* prefix `<branch>-` if and only if the branch query exits with status 0 and prints
\* a branch other than master; otherwise the name starts with the version.
BranchPrefixIff ==
    (Returned /\ Len(popen_calls) = 2) =>
        IF BranchQueryOk /\ BranchPrinted # Master
        THEN BranchPrinted # <<>> => HasBranchPrefix
        ELSE ReturnedName[1] \in Digits

-----------------------------------------------------------------------------
(* C5 *)

\* what `git describe --tag` prints, without the line end
DescribePrinted ==
    IF git_describe.out # <<>> /\ git_describe.out[Len(git_describe.out)] = "\n"
    THEN SubSeq(git_describe.out, 1, Len(git_describe.out) - 1)
    ELSE git_describe.out

\* t starts as ^(\d+)\.(\d+)\.(\d+) asks: three runs of digits with a dot between them
RefTagMatches(t) ==
    LET a == Run(t, 1, Digits)
        b == Run(t, a + 2, Digits)
    IN  /\ a > 0 /\ At(t, a + 1) = "."
        /\ b > 0 /\ At(t, a + b + 2) = "."
        /\ Run(t, a + b + 3, Digits) > 0

\* t goes on behind the tag as (?:-(\d+)-g([0-9a-f]+)) asks
RefBetaSuffix(t) ==
    LET a == Run(t, 1, Digits)
        b == Run(t, a + 2, Digits)
        p == a + b + 3 + Run(t, a + b + 3, Digits)
        d == Run(t, p + 1, Digits)
    IN  /\ RefTagMatches(t)
        /\ At(t, p) = "-" /\ d > 0
        /\ StartsAt(t, p + 1 + d, <<"-", "g">>)
        /\ Run(t, p + d + 3, HexChars) > 0

\* C5: with no manifest line of the form, and `git describe --tag` exiting with a
\* non-zero status or printing what the tag pattern does not match, get_version()
\* returns ("3.0.0-unsupported", [3,0,0,0]), having consulted `git describe` first.
DefaultFallback ==
    (/\ Returned
     /\ FirstVersionLine = 0
     /\ git_describe.close # None \/ ~RefTagMatches(DescribePrinted)) =>
        /\ ret = DefaultVersion
        /\ popen_calls = <<CmdDescribe>>

-----------------------------------------------------------------------------
(* C6 *)

\* the version is that of a tagged release with no commit behind it: the deciding
\* manifest line has no -betaN, or the describe output has no commit past the tag
ClaimOfficial ==
    IF FirstVersionLine # 0
    THEN \E blanks \in ClaimBlanks, v \in ClaimVersions :
             IsManifestForm(Val(pkg_info)[FirstVersionLine], blanks, v, None)
    ELSE \E v \in ClaimVersions :
             \/ DescribePrints(TagForm(v))
             \/ \E h \in ClaimHashes : DescribePrints(BetaForm(v, 0, h))

\* the result comes from a manifest line of the form, from a describe output of one
\* of the two forms, or is the default
ClaimedResult ==
    \/ FirstVersionLine # 0
    \/ \E v \in ClaimVersions :
           \/ DescribePrints(TagForm(v))
           \/ \E k \in ClaimCommits, h \in ClaimHashes : DescribePrints(BetaForm(v, k, h))
    \/ ret = DefaultVersion

\* C6: in every result the build number is 9999 if and only if the version is an
\* official tagged release with no commit behind it; a beta manifest version, a
\* describe output with a commit count and the default have another build number.
SentinelIffOfficial ==
    (Returned /\ ClaimedResult) =>
        (ReturnedNumbers[4] = OFFICIAL_BUILD <=> ClaimOfficial)

-----------------------------------------------------------------------------
(* C7 *)

IsText(t) == DOMAIN t = 1..Len(t) /\ \A i \in 1..Len(t) : t[i] \in STRING

-----------------------------------------------------------------------------
(* C8 *)

\* C8: the parse of the describe output agrees with the pattern
\* ^(\d+)\.(\d+)\.(\d+)(?:-(\d+)-g([0-9a-f]+))? : the tier yields numbers exactly for
\* the outputs the pattern matches, and takes a suffix -N-gHASH for a beta only when
\* HASH is made of hexadecimal digits.
DescribeParseAgreesWithReference ==
    /\ pc = "branch" => RefTagMatches(result)
    /\ (pc = "branch" /\ Val(numbers)[4] # OFFICIAL_BUILD) => RefBetaSuffix(result)
    /\ (pc = "default" /\ popen_calls = <<CmdDescribe>> /\ n = 0) => ~RefTagMatches(result)

-----------------------------------------------------------------------------
(* C9 *)

ClaimSwitches == << <<"-", "-", "a", "s", "s", "e", "r", "t">>, <<"-", "-", "t", "r", "a", "c", "e">>, <<"-", "-", "l", "e", "a", "k", "-", "c", "h", "e", "c", "k">> >>

ClaimMacros == << <<"P", "Y", "O", "D", "B", "C", "_", "A", "S", "S", "E", "R", "T">>, <<"P", "Y", "O", "D", "B", "C", "_", "T", "R", "A", "C", "E">>, <<"P", "Y", "O", "D", "B", "C", "_", "L", "E", "A", "K", "_", "C", "H", "E", "C", "K">> >>

\* how many times x is in list q
Count(q, x) == Cardinality({i \in 1..Len(q) : q[i] = x})

\* how many definitions of the settings have the name
Defined(settings, macro) ==
    Cardinality({i \in 1..Len(settings.define_macros) :
                     settings.define_macros[i].name = macro})

IsSwitch(a) == a = DebugFlag \/ \E k \in 1..3 : a = ClaimSwitches[k]

\* C9: after get_compiler_settings() has returned, sys.argv holds no --assert, --trace
\* or --leak-check; each of them that was there has added its definition exactly
\* once; the other arguments are kept in their order; and a second call finds no
\* switch and adds none of the definitions.
FlagsConsumed ==
    Len(calls) >= 1 =>
        /\ \A k \in 1..3 : Count(argv, ClaimSwitches[k]) = 0
        /\ \A k \in 1..3 :
               Defined(calls[1], ClaimMacros[k]) =
                   IF Count(argv0, ClaimSwitches[k]) > 0 THEN 1 ELSE 0
        /\ SelectSeq(argv, LAMBDA a : ~IsSwitch(a)) = SelectSeq(argv0, LAMBDA a : ~IsSwitch(a))
        /\ Len(calls) >= 2 => \A k \in 1..3 : Defined(calls[2], ClaimMacros[k]) = 0

-----------------------------------------------------------------------------
(* C10 *)

RECURSIVE DirAt(_, _)
\* the directory a path of names leads to from directory d
DirAt(d, path) ==
    IF path = <<>> THEN d
    ELSE DirAt(d.dirs[CHOOSE i \in 1..Len(d.dirs) : d.dirs[i].name = Head(path)], Tail(path))

\* C10: add_to_path() puts at most one directory before sys.path; that directory is
\* under the build tree, holds a pyodbcconf library, and its name, as that of every
\* directory entered on the way to it, ends with the interpreter's -<major>.<minor>;
\* when add_to_path() ends in SystemExit, sys.path is as it was.
PathLocated ==
    /\ walk_pc \in {"walk", "exit"} => sys_path = SysPath0
    /\ walk_pc = "returned" =>
           LET top == Head(sys_path)
           IN  /\ sys_path = <<top>> \o SysPath0
               /\ Len(top) >= 2
               /\ top[1] = Val(build).name
               /\ \A i \in 2..Len(top) : EndsWith(top[i], dir_suffix)
               /\ HoldsLibrary(DirAt(Val(build), Tail(top)).files)

====
